---- MODULE Spec2Model ----
(***************************************************************************)
(* Model of the news scraper: WebScraper.start_scraping and the steps it   *)
(* drives (web_scraping.py), and the time-based stop condition (utils.py). *)
(***************************************************************************)
EXTENDS Integers, Sequences, FiniteSets, TLC

\* ------------------------------------------------------------------ bounds
MaxBatchLen == 2    \* longest page batch of the stop-condition specification
MaxPages == 3       \* the site serves at most this many result pages
MaxRuns == 2        \* invocations of start_scraping on one WebScraper object
MaxNameLen == 2     \* longest checkbox label and category name, in letters

\* ------------------------------------------------------- program constants
DATE_NOT_FOUND == "DateTime Not Found"
ERROR_DATE_PROCESSING == "Error processing date"
DATE_NOT_AVAILABLE == "DateTime Not Available"
STOP_AFTER_ATTEMPT == 3
BASE_URL == "base"

\* ------------------------------------------------------------- data values
\* A DateTime cell of the DataFrame.  A cell written by parse_date on success
\* is an ISO text; only its year and month matter to the stop condition.
\* Every other cell is a plain text that is not ISO.
Iso(y, m) == [text |-> "iso", year |-> y, month |-> m]
Text(s) == [text |-> s, year |-> 0, month |-> 0]

ParseErrorCell == Text(ERROR_DATE_PROCESSING)
NotFoundCell == Text(DATE_NOT_AVAILABLE)
Sentinels == {ParseErrorCell, NotFoundCell}

\* Instants an article can carry: past months, the current one, later ones
\* (parse_date appends the current year to "December 25", and accepts any
\* explicit year).
Instants == {Iso(2023, 11), Iso(2023, 12), Iso(2024, 1), Iso(2024, 2), Iso(2024, 3)}
Cells == Instants \cup Sentinels

\* datetime.now() of the run, as (year, month)
Nows == {[year |-> 2024, month |-> 1], [year |-> 2024, month |-> 2]}

\* values of the configured MONTHS_PERIOD
Periods == {-1, 0, 1, 2}

SeqsUpTo(S, n) == UNION {[1..k -> S] : k \in 0..n}
Batches == SeqsUpTo(Cells, MaxBatchLen)

\* --------------------------------------------- utils.py: the stop condition
\* df[(df['DateTime'] != DATE_NOT_FOUND) & (~df['DateTime'].str.contains(ERROR_DATE_PROCESSING))]
valid_dates_df_keepErrors(d) ==
    SelectSeq(d, LAMBDA c : c.text # DATE_NOT_FOUND)

valid_dates_df(d) ==
    SelectSeq(d, LAMBDA c : c.text # DATE_NOT_FOUND /\ c.text # ERROR_DATE_PROCESSING)

\* datetime.fromisoformat raises ValueError on a text that is not ISO
fromisoformat_raises(c) == c.text # "iso"

diff_in_months(cur, e) == (cur.year - e.year) * 12 + cur.month - e.month

PeriodExceeded_zeroInclusive(mp, diff) ==
    \/ mp = 0 /\ diff >= 0
    \/ mp > 0 /\ diff >= mp

PeriodExceeded_strict(mp, diff) ==
    \/ mp = 0 /\ diff > 0
    \/ mp > 0 /\ diff > mp

\* the two "return False" tests of the stop condition
PeriodExceeded(mp, diff) ==
    \/ mp = 0 /\ diff > 0
    \/ mp > 0 /\ diff >= mp

\* pd.DataFrame([]) has no columns: df['DateTime'] raises KeyError
stop_condition_raises(d) == d = <<>>

\* the value returned when no KeyError is raised
should_continue_scraping_based_on_time(d, mp, cur) ==
    LET v == valid_dates_df(d) IN
    IF v = <<>> THEN TRUE
    ELSE LET earliest == v[Len(v)] IN
         IF fromisoformat_raises(earliest) THEN TRUE
         ELSE ~PeriodExceeded(mp, diff_in_months(cur, earliest))

\* outcome of one call: "continue", "stop" or "KeyError"
StopOutcome(d, mp, cur) ==
    IF stop_condition_raises(d) THEN "KeyError"
    ELSE IF should_continue_scraping_based_on_time(d, mp, cur) THEN "continue"
    ELSE "stop"

\* ------------------------------------------------------ utils.py: parse_date
\* A timestamp text of the site, by what parse_date looks at: its form
\* ("mins": contains 'min ago' or 'mins ago'; "hours"; "yesterday"; "date":
\* '<Month name> <day>' with or without ', <year>'; "other": anything else;
\* "empty"), the digits it carries ("none", "small", or "huge": more than
\* datetime can subtract), whether the relative form reaches back into the
\* previous calendar month, the explicit 4-digit year (0: none), the month, and
\* whether the day exists in that month.
Ts(f, d, p, y, m, v) ==
    [form |-> f, digits |-> d, prevMonth |-> p, year |-> y, month |-> m, valid |-> v]

MissingText == Ts("missing", "none", FALSE, 0, 0, FALSE)

Texts ==
    {Ts(f, d, p, 0, 0, FALSE) : f \in {"mins", "hours"}, d \in {"none", "small", "huge"},
                               p \in BOOLEAN}
    \cup {Ts("yesterday", "none", p, 0, 0, FALSE) : p \in BOOLEAN}
    \cup {Ts("date", "small", FALSE, y, m, v) : y \in {0, 2023, 2024}, m \in {1, 11, 12},
                                               v \in BOOLEAN}
    \cup {Ts("other", "none", FALSE, 0, 0, FALSE), Ts("empty", "none", FALSE, 0, 0, FALSE)}

PrevMonth(cur) ==
    IF cur.month = 1 THEN [year |-> cur.year - 1, month |-> 12]
    ELSE [year |-> cur.year, month |-> cur.month - 1]

\* (today_datetime - timedelta(...)).isoformat(timespec='minutes')
RelativeIso(cur, p) ==
    LET d == IF p THEN PrevMonth(cur) ELSE cur IN Iso(d.year, d.month)

Returned(c) == [exception |-> "none", cell |-> c]
Raised(e) == [exception |-> e, cell |-> Text("")]
Pending == [exception |-> "pending", cell |-> Text("")]

\* int(re.findall(r'\d+', timestamp)[0]) and the subtraction from now
RelativeOutcome(t, cur) ==
    IF t.digits = "none" THEN Raised("IndexError")
    ELSE IF t.digits = "huge" THEN Raised("OverflowError")
    ELSE Returned(RelativeIso(cur, t.prevMonth))

\* datetime.strptime(timestamp, '%B %d, %Y') after the current year was
\* appended to a text without a 4-digit year; ValueError gives the sentinel
AbsoluteOutcome(t, cur) ==
    IF t.form = "date" /\ t.valid
    THEN Returned(Iso(IF t.year = 0 THEN cur.year ELSE t.year, t.month))
    ELSE Returned(ParseErrorCell)

parse_date(t, cur) ==
    IF t.form \in {"mins", "hours"} THEN RelativeOutcome(t, cur)
    ELSE IF t.form = "yesterday" THEN Returned(RelativeIso(cur, t.prevMonth))
    ELSE AbsoluteOutcome(t, cur)

\* --------------------------------- fetch_results: one PagePromo element
IMAGE_NOT_AVAILABLE == "Image Not Available"

\* An element by what the extraction finds in it.
\*   link: "href", "nohref" (the Link element has no href), "missing"
\*   title: "attr", "noattr" (no data-gtm-region attribute)
\*   description: "present", "missing"
\*   image: "ok", "missing" (no Image element), "network" (requests raises),
\*          "write" (open/write raises OSError), "mkdir" (img_folder.mkdir raises)
\*   tsNow, ts: text of the Timestamp-template-now / Timestamp-template
\*          element, MissingText when the element is absent
ElementTexts ==
    {MissingText,
     Ts("mins", "none", FALSE, 0, 0, FALSE),
     Ts("hours", "small", FALSE, 0, 0, FALSE),
     Ts("date", "small", FALSE, 2023, 11, TRUE),
     Ts("other", "none", FALSE, 0, 0, FALSE)}

Elements ==
    [link : {"href", "nohref", "missing"},
     title : {"attr", "noattr"},
     description : {"present", "missing"},
     image : {"ok", "missing", "network", "write", "mkdir"},
     tsNow : ElementTexts,
     ts : ElementTexts]

\* str(article.find_element(Link).get_attribute('href')), outside any try
url_of(e) == IF e.link = "href" THEN "url" ELSE "None"

\* str(article.get_attribute('data-gtm-region'))
title_of(e) == IF e.title = "attr" THEN "title" ELSE "None"

description_of(e) == IF e.description = "present" THEN "description" ELSE ""

\* download_image: the filename, or None when requests or the write fails;
\* mkdir is outside its try, so its OSError is raised to the caller
download_image(e) ==
    IF e.image = "ok" THEN Returned("url.png")
    ELSE IF e.image = "mkdir" THEN Raised("OSError")
    ELSE Returned("None")

\* try: download_image(url, find_element(Image).get_attribute('src'))
\* except Exception: 'Image Not Available'
image_of(e) ==
    IF e.image = "missing" THEN IMAGE_NOT_AVAILABLE
    ELSE IF download_image(e).exception # "none" THEN IMAGE_NOT_AVAILABLE
    ELSE download_image(e).cell

\* parse_date(find_element(...).text) inside a try: a missing element and an
\* exception of parse_date both fall to the except clause
timestamp_outcome(t, cur) ==
    IF t = MissingText THEN Raised("NoSuchElementException") ELSE parse_date(t, cur)

datetime_of(e, cur) ==
    IF timestamp_outcome(e.tsNow, cur).exception = "none"
    THEN timestamp_outcome(e.tsNow, cur).cell
    ELSE IF timestamp_outcome(e.ts, cur).exception = "none"
    THEN timestamp_outcome(e.ts, cur).cell
    ELSE NotFoundCell

\* the body of "for article in news_elements"; an exception here is caught by
\* the outer except of fetch_results, which raises ScrapingError
extract_article(e, cur) ==
    IF e.link = "missing" THEN [exception |-> "ScrapingError"]
    ELSE [exception |-> "none",
          URL |-> url_of(e),
          Title |-> title_of(e),
          Description |-> description_of(e),
          Image |-> image_of(e),
          DateTime |-> datetime_of(e, cur)]

\* ------------------------------------- apply_filter: the category match
\* Texts of labels and names are sequences of letters; a letter has a case.
Letters == {"a", "A", "b", "B"}
Names == SeqsUpTo(Letters, MaxNameLen)

lower_letter(c) == IF c = "A" THEN "a" ELSE IF c = "B" THEN "b" ELSE c

\* str.lower()
lower(w) == [i \in 1..Len(w) |-> lower_letter(w[i])]

\* Python's "needle in hay" on strings
contains(hay, needle) ==
    \E i \in 0..(Len(hay) - Len(needle)) : SubSeq(hay, i + 1, i + Len(needle)) = needle

\* if CATEGORY_FILTER in str(category.text).lower(): category.click()
category_matches(name, lab) == contains(lower(lab), name)

\* ------------------------------------------------- the retry decorator
\* @retry(reraise=True, retry=retry_if_exception_type(ScrapingError),
\*        stop=stop_after_attempt(3), wait=wait_exponential(multiplier=1, max=10))
retry_if_exception_type_any(err) == TRUE

retry_if_exception_type(err) == err = "ScrapingError"

stop_after_attempt_late(n) == n > STOP_AFTER_ATTEMPT

stop_after_attempt(n) == n >= STOP_AFTER_ATTEMPT

\* after attempt number n ended in err: wait and run the operation again?
WillRetry(err, n) == retry_if_exception_type(err) /\ ~stop_after_attempt(n)

\* ---------------------------------------------------------------- the state
VARIABLES
    MONTHS_PERIOD,     \* api.constants.MONTHS_PERIOD
    now,               \* datetime.now(), year and month
    df, stopResult,    \* argument and outcome of a stand-alone stop-condition call
    text, parsed,      \* argument and outcome of a stand-alone parse_date call
    element, extracted, \* a PagePromo element and what fetch_results makes of it
    CATEGORY_FILTER,   \* api.constants.CATEGORY_FILTER, a sequence of letters
    label, clicked,    \* text of one category checkbox; whether apply_filter clicks it
    pc,                \* position of the caller / of start_scraping
    run,               \* invocations of start_scraping so far
    attempts, waits,   \* of the retry-wrapped call in progress
    errs,              \* errors of the attempts of that call that were retried
    lastCall,          \* the retry-wrapped call that completed last
    browser,           \* the Selenium object self.browser refers to: "None", or the
                       \* state of its browser: "nobrowser", "open", "closed"
    orphans,           \* browsers left open by Selenium objects that self.browser
                       \* no longer refers to
    location,          \* the page the current browser shows
    sitePage,          \* the result page the current browser shows
    scrape_continues,  \* self.scrape_continues
    page_counter,      \* local of start_scraping
    collected_data,    \* local of start_scraping
    exc,               \* exception that left start_scraping, "none" if none
    served,            \* batches returned by fetch_results in this run
    fetchedPages,      \* result pages those batches were read from
    allOk,             \* no step of this run has failed so far
    searched,          \* execute_search has returned in this run
    filterTried,       \* apply_filter has been attempted in this run
    fetchTried         \* fetch_results has been attempted in this run

vars == <<MONTHS_PERIOD, now, df, stopResult, text, parsed, element, extracted,
          CATEGORY_FILTER, label, clicked, pc, run, attempts, waits, errs, lastCall,
          browser, orphans, location, sitePage, scrape_continues, page_counter,
          collected_data, exc, served, fetchedPages, allOk, searched,
          filterTried, fetchTried>>

envVars == <<MONTHS_PERIOD, now>>
filterVars == <<CATEGORY_FILTER, label, clicked>>
stopVars == <<df, stopResult, text, parsed, element, extracted, CATEGORY_FILTER, label, clicked>>
ghostRun == <<served, fetchedPages, searched, filterTried, fetchTried>>

NoCall == [step |-> "none", attempts |-> 0, waits |-> 0, retried |-> <<>>, result |-> "none"]
Call(s, n, w, r) == [step |-> s, attempts |-> n, waits |-> w, retried |-> errs, result |-> r]

\* the batches the site serves in a run
RunBatches ==
    { <<>>, <<Iso(2024, 1)>>, <<Iso(2023, 11)>>, <<NotFoundCell>>,
      <<Iso(2023, 11), ParseErrorCell>> }

Last(s) == s[Len(s)]
Front(s) == SubSeq(s, 1, Len(s) - 1)

RECURSIVE Flatten(_)
Flatten(ss) == IF ss = <<>> THEN <<>> ELSE Flatten(Front(ss)) \o Last(ss)

\* WebScraper.__init__
InitRun ==
    /\ pc = "idle"
    /\ run = 0
    /\ attempts = 0
    /\ waits = 0
    /\ errs = <<>>
    /\ lastCall = NoCall
    /\ browser = "None"
    /\ orphans = 0
    /\ location = "none"
    /\ sitePage = 0
    /\ scrape_continues = TRUE
    /\ page_counter = 0
    /\ collected_data = <<>>
    /\ exc = "none"
    /\ served = <<>>
    /\ fetchedPages = <<>>
    /\ allOk = TRUE
    /\ searched = FALSE
    /\ filterTried = FALSE
    /\ fetchTried = FALSE

InitEnv ==
    /\ MONTHS_PERIOD \in Periods
    /\ now \in Nows

NoElement ==
    [link |-> "none", title |-> "none", description |-> "none", image |-> "none",
     tsNow |-> MissingText, ts |-> MissingText]

NotExtracted == [exception |-> "pending"]

\* no stand-alone parse_date call and no element under extraction
\* no checkbox under examination
InitNoFilter ==
    /\ CATEGORY_FILTER = <<"a">>
    /\ label = <<>>
    /\ clicked = "pending"

InitIdle ==
    /\ InitNoFilter
    /\ text = MissingText
    /\ parsed = Pending
    /\ element = NoElement
    /\ extracted = NotExtracted

Init ==
    /\ InitEnv
    /\ InitRun
    /\ InitIdle
    /\ df = <<>>
    /\ stopResult = "none"

\* ------------------------------------------------ leaving start_scraping
\* managed_browser, the finally clause: if self.browser: self.browser.close_browser()
close_browser(b) == IF b = "open" THEN "closed" ELSE b

\* "return collected_data" from inside the with block
ReturnFromRun ==
    /\ pc' = "returned"
    /\ exc' = "none"
    /\ browser' = close_browser(browser)
    /\ attempts' = 0
    /\ waits' = 0
    /\ errs' = <<>>

\* an exception leaves the with block
RaiseFromRun(e) ==
    /\ pc' = "raised"
    /\ exc' = e
    /\ browser' = close_browser(browser)
    /\ attempts' = 0
    /\ waits' = 0
    /\ errs' = <<>>

\* "while self.scrape_continues:" evaluated with the flag f
LoopTest(f) ==
    IF f THEN /\ pc' = "fetch"
              /\ exc' = "none"
              /\ browser' = browser
              /\ attempts' = 0
              /\ waits' = 0
              /\ errs' = <<>>
    ELSE ReturnFromRun

\* pd.concat([collected_data, page_data], ignore_index=True)
concat_replacing(c, b) == b

concat(c, b) == c \o b

\* page_counter += 1
page_counter_increment_twice(c) == c + 2

page_counter_increment(c) == c + 1

\* except ScrapingError: self.scrape_continues = False
flag_after_page_error_kept(f) == f

flag_after_page_error(f) == FALSE

\* ------------------------------------------------------------- the actions
\* the caller invokes scraper.start_scraping(query)
StartScraping ==
    /\ pc \in {"idle", "returned", "raised"}
    /\ run < MaxRuns
    /\ pc' = "launch"
    /\ run' = run + 1
    /\ attempts' = 0
    /\ waits' = 0
    /\ errs' = <<>>
    /\ lastCall' = NoCall
    /\ location' = "none"
    /\ sitePage' = 0
    /\ page_counter' = 0
    /\ collected_data' = <<>>
    /\ exc' = "none"
    /\ served' = <<>>
    /\ fetchedPages' = <<>>
    /\ allOk' = TRUE
    /\ searched' = FALSE
    /\ filterTried' = FALSE
    /\ fetchTried' = FALSE
    /\ UNCHANGED <<envVars, stopVars, browser, orphans, scrape_continues>>

\* one attempt of launch_browser, called by managed_browser before its try.
\* o = "ok": the browser opened and loaded BASE_URL; "opened": the browser
\* opened and the page load failed; "failed": no browser was opened.
LaunchAttempt(o) ==
    LET n == attempts + 1
        err == IF o = "ok" THEN "ok" ELSE "ScrapingError"
    IN
    /\ pc = "launch"
    /\ orphans' = orphans + (IF browser = "open" THEN 1 ELSE 0)
    /\ browser' = (IF o = "failed" THEN "nobrowser" ELSE "open")
    /\ allOk' = (allOk /\ o = "ok")
    /\ IF o = "ok"
       THEN /\ pc' = "search"
            /\ location' = BASE_URL
            /\ attempts' = 0
            /\ waits' = 0
            /\ errs' = <<>>
            /\ lastCall' = Call("launch_browser", n, waits, "ok")
            /\ exc' = exc
       ELSE IF WillRetry(err, n)
       THEN /\ pc' = pc
            /\ location' = location
            /\ attempts' = n
            /\ waits' = waits + 1
            /\ errs' = Append(errs, err)
            /\ lastCall' = lastCall
            /\ exc' = exc
       ELSE /\ pc' = "raised"
            /\ location' = location
            /\ attempts' = 0
            /\ waits' = 0
            /\ errs' = <<>>
            /\ lastCall' = Call("launch_browser", n, waits, err)
            /\ exc' = err
    /\ UNCHANGED <<envVars, stopVars, run, sitePage, scrape_continues, page_counter,
                   collected_data, ghostRun>>

\* execute_search's except clause: self.browser.go_to(BASE_URL), then raise
\* ScrapingError; reached is the page shown when the try body failed
search_cleanup_location_stay(reached, goToOk) == reached

search_cleanup_location(reached, goToOk) == IF goToOk THEN BASE_URL ELSE reached

\* one attempt of execute_search.  o = "ok"; "ScrapingError": the try body
\* failed and go_to succeeded; "WebDriverException": go_to itself raised.
SearchAttempt(o, reached) ==
    LET n == attempts + 1 IN
    /\ pc = "search"
    /\ allOk' = (allOk /\ o = "ok")
    /\ IF o = "ok"
       THEN /\ pc' = "filter"
            /\ location' = "results"
            /\ sitePage' = 1
            /\ searched' = TRUE
            /\ attempts' = 0
            /\ waits' = 0
            /\ errs' = <<>>
            /\ lastCall' = Call("execute_search", n, waits, "ok")
            /\ UNCHANGED <<exc, browser>>
       ELSE IF WillRetry(o, n)
       THEN /\ pc' = pc
            /\ location' = search_cleanup_location(reached, o = "ScrapingError")
            /\ attempts' = n
            /\ waits' = waits + 1
            /\ errs' = Append(errs, o)
            /\ UNCHANGED <<sitePage, searched, lastCall, exc, browser>>
       ELSE /\ location' = search_cleanup_location(reached, o = "ScrapingError")
            /\ lastCall' = Call("execute_search", n, waits, o)
            /\ RaiseFromRun(o)
            /\ UNCHANGED <<sitePage, searched>>
    /\ UNCHANGED <<envVars, stopVars, run, orphans, scrape_continues, page_counter,
                   collected_data, served, fetchedPages, filterTried, fetchTried>>

\* one attempt of apply_filter; start_scraping catches its ScrapingError, then
\* sets page_counter and collected_data and enters the while loop
FilterAttempt(o) ==
    LET n == attempts + 1 IN
    /\ pc = "filter"
    /\ filterTried' = TRUE
    /\ allOk' = (allOk /\ o = "ok")
    /\ IF o # "ok" /\ WillRetry(o, n)
       THEN /\ attempts' = n
            /\ waits' = waits + 1
            /\ errs' = Append(errs, o)
            /\ UNCHANGED <<pc, lastCall, exc, browser, page_counter, collected_data>>
       ELSE /\ lastCall' = Call("apply_filter", n, waits, o)
            /\ page_counter' = 1
            /\ collected_data' = <<>>
            /\ LoopTest(scrape_continues)
    /\ UNCHANGED <<envVars, stopVars, run, orphans, location, sitePage, scrape_continues,
                   served, fetchedPages, searched, fetchTried>>

\* one attempt of fetch_results and, when it returns, the rest of the loop body
\* up to the call of navigate_to_next_page: pd.concat, the stop condition, the
\* assignment of self.scrape_continues.  b is the batch the page yields.
FetchAttempt(o, b) ==
    LET n == attempts + 1
        outcome == StopOutcome(b, MONTHS_PERIOD, now)
    IN
    /\ pc = "fetch"
    /\ fetchTried' = TRUE
    /\ allOk' = (allOk /\ o = "ok" /\ outcome # "KeyError")
    /\ IF o = "ok"
       THEN /\ lastCall' = Call("fetch_results", n, waits, "ok")
            /\ served' = Append(served, b)
            /\ fetchedPages' = Append(fetchedPages, sitePage)
            /\ collected_data' = concat(collected_data, b)
            /\ IF outcome = "KeyError"
               THEN /\ scrape_continues' = scrape_continues
                    /\ RaiseFromRun("KeyError")
               ELSE /\ scrape_continues' = (outcome = "continue")
                    /\ IF outcome = "continue"
                       THEN /\ pc' = "navigate"
                            /\ attempts' = 0
                            /\ waits' = 0
                            /\ errs' = <<>>
                            /\ UNCHANGED <<exc, browser>>
                       ELSE LoopTest(FALSE)
       ELSE IF WillRetry(o, n)
       THEN /\ attempts' = n
            /\ waits' = waits + 1
            /\ errs' = Append(errs, o)
            /\ UNCHANGED <<pc, lastCall, exc, browser, served, fetchedPages,
                           collected_data, scrape_continues>>
       ELSE \* except ScrapingError: self.scrape_continues = False
            /\ lastCall' = Call("fetch_results", n, waits, o)
            /\ scrape_continues' = flag_after_page_error(scrape_continues)
            /\ LoopTest(flag_after_page_error(scrape_continues))
            /\ UNCHANGED <<served, fetchedPages, collected_data>>
    /\ UNCHANGED <<envVars, stopVars, run, orphans, location, sitePage, page_counter,
                   searched, filterTried>>

\* one attempt of navigate_to_next_page and, when it returns, page_counter += 1.
\* o = "ok"; "ScrapingError": the click failed and the refresh succeeded;
\* "WebDriverException": the refresh in the except clause itself raised.
NavigateAttempt(o) ==
    LET n == attempts + 1 IN
    /\ pc = "navigate"
    /\ o = "ok" => page_counter < MaxPages
    /\ allOk' = (allOk /\ o = "ok")
    /\ IF o = "ok"
       THEN /\ lastCall' = Call("navigate_to_next_page", n, waits, "ok")
            /\ sitePage' = sitePage + 1
            /\ page_counter' = page_counter_increment(page_counter)
            /\ scrape_continues' = scrape_continues
            /\ LoopTest(scrape_continues)
       ELSE IF WillRetry(o, n)
       THEN /\ attempts' = n
            /\ waits' = waits + 1
            /\ errs' = Append(errs, o)
            /\ UNCHANGED <<pc, lastCall, exc, browser, sitePage, page_counter,
                           scrape_continues>>
       ELSE IF o = "ScrapingError"
       THEN \* except ScrapingError: self.scrape_continues = False
            /\ lastCall' = Call("navigate_to_next_page", n, waits, o)
            /\ scrape_continues' = flag_after_page_error(scrape_continues)
            /\ LoopTest(flag_after_page_error(scrape_continues))
            /\ UNCHANGED <<sitePage, page_counter>>
       ELSE /\ lastCall' = Call("navigate_to_next_page", n, waits, o)
            /\ RaiseFromRun(o)
            /\ UNCHANGED <<sitePage, page_counter, scrape_continues>>
    /\ UNCHANGED <<envVars, stopVars, run, orphans, location, collected_data, ghostRun>>

Next ==
    \/ StartScraping
    \/ \E o \in {"ok", "opened", "failed"} : LaunchAttempt(o)
    \/ \E o \in {"ok", "ScrapingError", "WebDriverException"},
          reached \in {BASE_URL, "results"} : SearchAttempt(o, reached)
    \/ \E o \in {"ok", "ScrapingError"} : FilterAttempt(o)
    \/ \E o \in {"ok", "ScrapingError"}, b \in RunBatches : FetchAttempt(o, b)
    \/ \E o \in {"ok", "ScrapingError", "WebDriverException"} : NavigateAttempt(o)

Spec == Init /\ [][Next]_vars

\* the steps start_scraping takes by itself once it was called
RunStep ==
    \/ \E o \in {"ok", "opened", "failed"} : LaunchAttempt(o)
    \/ \E o \in {"ok", "ScrapingError", "WebDriverException"},
          reached \in {BASE_URL, "results"} : SearchAttempt(o, reached)
    \/ \E o \in {"ok", "ScrapingError"} : FilterAttempt(o)
    \/ \E o \in {"ok", "ScrapingError"}, b \in RunBatches : FetchAttempt(o, b)
    \/ \E o \in {"ok", "ScrapingError", "WebDriverException"} : NavigateAttempt(o)

\* a started run keeps running: every browser wait has a timeout and every
\* backoff wait ends
SpecFair == Spec /\ WF_vars(RunStep)

\* ------------------------------- the stop condition called on its own
InitStop ==
    /\ InitEnv
    /\ InitRun
    /\ InitIdle
    /\ df \in Batches
    /\ stopResult = "none"

Evaluate ==
    /\ stopResult = "none"
    /\ stopResult' = StopOutcome(df, MONTHS_PERIOD, now)
    /\ UNCHANGED <<envVars, filterVars, df, text, parsed, element, extracted, pc, run, attempts, waits, errs, lastCall, browser, orphans,
                   location, sitePage, scrape_continues, page_counter, collected_data,
                   exc, served, fetchedPages, allOk, searched, filterTried,
                   fetchTried>>

NextStop == Evaluate

SpecStop == InitStop /\ [][NextStop]_vars

\* ------------------------------------------- parse_date called on its own
InitParse ==
    /\ InitEnv
    /\ InitRun
    /\ df = <<>>
    /\ stopResult = "none"
    /\ text \in Texts
    /\ InitNoFilter
    /\ parsed = Pending
    /\ element = NoElement
    /\ extracted = NotExtracted

Parse ==
    /\ parsed = Pending
    /\ parsed' = parse_date(text, now)
    /\ UNCHANGED <<envVars, filterVars, df, stopResult, text, element, extracted, pc, run, attempts,
                   waits, errs, lastCall, browser, orphans, location, sitePage,
                   scrape_continues, page_counter, collected_data, exc, served,
                   fetchedPages, allOk, searched, filterTried, fetchTried>>

NextParse == Parse

SpecParse == InitParse /\ [][NextParse]_vars

\* ------------------------------- the extraction of one element on its own
InitExtract ==
    /\ InitEnv
    /\ InitRun
    /\ df = <<>>
    /\ stopResult = "none"
    /\ text = MissingText
    /\ parsed = Pending
    /\ element \in Elements
    /\ InitNoFilter
    /\ extracted = NotExtracted

Extract ==
    /\ extracted = NotExtracted
    /\ extracted' = extract_article(element, now)
    /\ UNCHANGED <<envVars, filterVars, df, stopResult, text, parsed, element, pc, run, attempts,
                   waits, errs, lastCall, browser, orphans, location, sitePage,
                   scrape_continues, page_counter, collected_data, exc, served,
                   fetchedPages, allOk, searched, filterTried, fetchTried>>

NextExtract == Extract

SpecExtract == InitExtract /\ [][NextExtract]_vars

\* ----------------------------- the category test of one checkbox on its own
InitFilter ==
    /\ InitEnv
    /\ InitRun
    /\ df = <<>>
    /\ stopResult = "none"
    /\ text = MissingText
    /\ parsed = Pending
    /\ element = NoElement
    /\ extracted = NotExtracted
    /\ CATEGORY_FILTER \in Names
    /\ label \in Names
    /\ clicked = "pending"

TestCheckbox ==
    /\ clicked = "pending"
    /\ clicked' = (IF category_matches(CATEGORY_FILTER, label) THEN "yes" ELSE "no")
    /\ UNCHANGED <<envVars, CATEGORY_FILTER, label, df, stopResult, text, parsed, element,
                   extracted, pc, run, attempts, waits, errs, lastCall, browser, orphans,
                   location, sitePage, scrape_continues, page_counter, collected_data,
                   exc, served, fetchedPages, allOk, searched, filterTried, fetchTried>>

NextFilter == TestCheckbox

SpecFilter == InitFilter /\ [][NextFilter]_vars

\* =================================================================== claims
SameMonth(t, cur) == t.year = cur.year /\ t.month = cur.month
EarlierMonth(t, cur) == t.year < cur.year \/ (t.year = cur.year /\ t.month < cur.month)
MonthsBack(t, cur) == (cur.year - t.year) * 12 + (cur.month - t.month)

Evaluated == stopResult # "none"
LastIsInstant == df # <<>> /\ Last(df) \in Instants
LastIsSentinel == df # <<>> /\ Last(df) \in Sentinels

\* C1: a run whose steps all succeed fetches pages 1..k in order, k being the
\* first page whose batch makes the stop condition say stop, fetches nothing
\* after page k, and returns the concatenation of the batches of pages 1..k.
C1_AllOkRunFetchesUntilStop ==
    (pc = "returned" /\ allOk) =>
        LET k == Len(served) IN
        /\ k >= 1
        /\ fetchedPages = [i \in 1..k |-> i]
        /\ StopOutcome(served[k], MONTHS_PERIOD, now) = "stop"
        /\ \A j \in 1..(k - 1) : StopOutcome(served[j], MONTHS_PERIOD, now) = "continue"
        /\ collected_data = Flatten(served)

\* The property of C1 on the first invocation on a freshly constructed object.
C1_FirstRunFetchesUntilStop == run = 1 => C1_AllOkRunFetchesUntilStop

\* C2: once execute_search has returned, no failure while a page is processed
\* leaves start_scraping as an exception; the run returns with the continue
\* flag false and every batch fetched so far.
C2_PageFailuresStayInLoop ==
    searched =>
        /\ pc # "raised"
        /\ pc = "returned" => (~scrape_continues /\ collected_data = Flatten(served))

\* C3: whenever control is back at the caller of start_scraping, every browser
\* opened so far has been closed.
C3_BrowsersClosedOnExit ==
    pc \in {"returned", "raised"} => (browser # "open" /\ orphans = 0)

\* C4: after fetch_results returned an empty batch the run is about to navigate
\* to the next page, with the continue flag true, no exception, and the
\* accumulated sequence as it was before the fetch.
C4_EmptyBatchContinues ==
    (lastCall.step = "fetch_results" /\ lastCall.result = "ok" /\ Last(served) = <<>>) =>
        /\ pc = "navigate"
        /\ scrape_continues
        /\ exc = "none"
        /\ collected_data = Flatten(Front(served))

C6_ZeroStopsOutsideCurrentMonth ==
    (Evaluated /\ MONTHS_PERIOD = 0 /\ LastIsInstant) =>
        ((stopResult = "stop") <=> ~SameMonth(Last(df), now))

\* C6 amended: with months_period = 0 and a valid last instant, stop if and
\* only if the instant is in a calendar month earlier than the current one.
C6_ZeroStopsOnEarlierMonth ==
    (Evaluated /\ MONTHS_PERIOD = 0 /\ LastIsInstant) =>
        /\ (stopResult = "stop") <=> EarlierMonth(Last(df), now)
        /\ (stopResult = "continue") <=> ~EarlierMonth(Last(df), now)

C6_Witness ==
    /\ MONTHS_PERIOD = 0
    /\ LastIsInstant
    /\ ~SameMonth(Last(df), now)
    /\ ~EarlierMonth(Last(df), now)
    /\ stopResult = "continue"

\* C7: with months_period = N > 0 and a valid last instant t, stop if and only
\* if (now.year - t.year) * 12 + (now.month - t.month) >= N, continue if and
\* only if it is < N.
C7_PositivePeriodStopsAtN ==
    (Evaluated /\ MONTHS_PERIOD > 0 /\ LastIsInstant) =>
        /\ (stopResult = "stop") <=> MonthsBack(Last(df), now) >= MONTHS_PERIOD
        /\ (stopResult = "continue") <=> MonthsBack(Last(df), now) < MONTHS_PERIOD

C7_Witness ==
    /\ MONTHS_PERIOD = 2
    /\ Len(df) = 2
    /\ LastIsInstant
    /\ df[1] \in Instants
    /\ MonthsBack(df[1], now) < 2
    /\ MonthsBack(Last(df), now) = 2
    /\ stopResult = "stop"

RetrySteps ==
    {"launch_browser", "execute_search", "apply_filter", "fetch_results",
     "navigate_to_next_page"}

\* C8: a retry-wrapped call runs its operation at most 3 times; a call that
\* succeeds after two transient failures has waited exactly twice; a call whose
\* 3 attempts all failed transiently ends in that failure after exactly 2
\* waits, none after the last attempt.
C8_ThreeAttemptsTwoWaits ==
    /\ attempts < STOP_AFTER_ATTEMPT
    /\ waits = attempts
    /\ lastCall.step # "none" =>
        /\ lastCall.step \in RetrySteps
        /\ lastCall.attempts \in 1..3
        /\ lastCall.waits = lastCall.attempts - 1
        /\ Len(lastCall.retried) = lastCall.waits
        /\ (lastCall.result = "ok" /\ Len(lastCall.retried) = 2) =>
               (lastCall.attempts = 3 /\ lastCall.waits = 2)
        /\ lastCall.result = "ScrapingError" =>
               (lastCall.attempts = 3 /\ lastCall.waits = 2)

C8_Witness ==
    /\ lastCall.step = "fetch_results"
    /\ lastCall.result = "ok"
    /\ lastCall.retried = <<"ScrapingError", "ScrapingError">>
    /\ lastCall.waits = 2

\* C9: only an attempt that ended in ScrapingError is followed by a wait and
\* another attempt; an attempt that ended in another error ends the call at
\* once and that error reaches the caller of start_scraping.
C9_OnlyScrapingErrorRetried ==
    /\ \A i \in 1..Len(errs) : errs[i] = "ScrapingError"
    /\ \A i \in 1..Len(lastCall.retried) : lastCall.retried[i] = "ScrapingError"
    /\ lastCall.result \notin {"none", "ok", "ScrapingError"} =>
        /\ lastCall.waits = lastCall.attempts - 1
        /\ pc = "raised"
        /\ exc = lastCall.result

C9_Witness ==
    /\ lastCall.step = "navigate_to_next_page"
    /\ lastCall.result = "WebDriverException"
    /\ lastCall.attempts = 2
    /\ lastCall.waits = 1
    /\ exc = "WebDriverException"

\* C10: when every attempt of execute_search ended in ScrapingError, the
\* browser was sent back to the base URL, the ScrapingError reaches the caller
\* of start_scraping, and the run attempted neither the filter nor a fetch.
C10_SearchExhaustionIsFatal ==
    (lastCall.step = "execute_search" /\ lastCall.result = "ScrapingError") =>
        /\ lastCall.attempts = STOP_AFTER_ATTEMPT
        /\ location = BASE_URL
        /\ pc = "raised"
        /\ exc = "ScrapingError"
        /\ ~filterTried
        /\ ~fetchTried
        /\ served = <<>>

C10_Witness ==
    /\ lastCall.step = "execute_search"
    /\ lastCall.result = "ScrapingError"
    /\ lastCall.attempts = 3
    /\ pc = "raised"
    /\ location = BASE_URL

\* C11: whenever apply_filter failed on all of its attempts, start_scraping
\* goes on to fetch page 1 with the continue flag true and nothing accumulated.
C11_FilterFailureProceedsToFetch ==
    (lastCall.step = "apply_filter" /\ lastCall.result = "ScrapingError") =>
        /\ pc = "fetch"
        /\ scrape_continues
        /\ exc = "none"
        /\ page_counter = 1
        /\ sitePage = 1
        /\ collected_data = <<>>

\* The property of C11 on the first invocation on a freshly constructed object.
C11_FirstRunFilterFailureProceeds == run = 1 => C11_FilterFailureProceedsToFetch

\* C13: parse_date never raises; for every text it returns a valid instant or
\* the parse-error sentinel.
C13_ParseDateNeverRaises ==
    parsed # Pending =>
        /\ parsed.exception = "none"
        /\ parsed.cell.text = "iso" \/ parsed.cell = ParseErrorCell

\* What parse_date does guarantee: a text that is not a relative form without a
\* usable number gives an instant or the sentinel.
C13_OnlyRelativeFormsRaise ==
    (parsed # Pending /\ parsed.exception # "none") =>
        (text.form \in {"mins", "hours"} /\ text.digits # "small")

WasExtracted == extracted # NotExtracted

\* C12: the extraction of an element never fails as a whole: whatever field
\* cannot be extracted, an article is emitted and the page fetch does not fail.
C12_ExtractionNeverFails ==
    WasExtracted => extracted.exception = "none"

\* What the extraction does guarantee: only a missing Link element makes it
\* fail; every other missing part leaves an article.
C12_OnlyMissingLinkFails ==
    WasExtracted => (extracted.exception # "none" <=> element.link = "missing")

\* C14: whenever the image cannot be obtained (no Image element, network
\* failure, filesystem failure) the article's image is the 'unavailable'
\* sentinel and the other fields are what the element gives.
C14_ImageFailureGivesSentinel ==
    (WasExtracted /\ extracted.exception = "none" /\ element.image # "ok") =>
        /\ extracted.Image = IMAGE_NOT_AVAILABLE
        /\ extracted.URL = url_of(element)
        /\ extracted.Title = title_of(element)
        /\ extracted.Description = description_of(element)
        /\ extracted.DateTime = datetime_of(element, now)

\* What the code does guarantee: the sentinel when the Image element is absent
\* or the image folder cannot be created; None when the download or the write
\* fails.
C14_MissingImageGivesSentinel ==
    (WasExtracted /\ extracted.exception = "none") =>
        /\ element.image \in {"missing", "mkdir"} => extracted.Image = IMAGE_NOT_AVAILABLE
        /\ element.image \in {"network", "write"} => extracted.Image = "None"

InLoop == pc \in {"fetch", "navigate"}
Ended == pc \in {"returned", "raised"}

\* C15: every invocation of start_scraping starts with the continue flag true
\* (page number 1 and nothing accumulated when the loop is reached), and every
\* invocation whose search succeeded attempts to fetch page 1.
C15_EveryRunStartsFresh ==
    /\ pc \in {"launch", "search", "filter"} => scrape_continues
    /\ InLoop => (page_counter >= 1 /\ Len(served) <= page_counter)
    /\ (Ended /\ searched) => fetchTried

\* C16: in the loop the page counter starts at 1, changes only by +1 and only
\* when navigate_to_next_page returns after fetch_results returned, and the
\* number of batches appended is page_counter - 1 or page_counter.
C16_PageCounterStepsByOne ==
    /\ [](InLoop => (page_counter >= 1 /\ Len(served) \in {page_counter - 1, page_counter}))
    /\ []((pc \in {"returned", "raised"} /\ filterTried) =>
              Len(served) \in {page_counter - 1, page_counter})
    /\ [][page_counter' # page_counter =>
            \/ pc' = "launch" /\ page_counter' = 0
            \/ pc = "filter" /\ page_counter' = 1
            \/ /\ pc = "navigate"
               /\ page_counter' = page_counter + 1
               /\ lastCall.step = "fetch_results" /\ lastCall.result = "ok"
               /\ lastCall'.step = "navigate_to_next_page" /\ lastCall'.result = "ok"]_vars

C16_Witness ==
    /\ pc = "navigate"
    /\ page_counter = 2
    /\ Len(served) = 2

\* C17: when the stop condition said continue and navigate_to_next_page failed
\* on all of its attempts, the browser stays on the current result page, the
\* page counter is not incremented, the batch of the current page stays
\* accumulated, the continue flag is false and the run has returned without
\* another fetch.
C17_NavigationExhaustionEndsRun ==
    (lastCall.step = "navigate_to_next_page" /\ lastCall.result = "ScrapingError") =>
        /\ pc = "returned"
        /\ ~scrape_continues
        /\ location = "results"
        /\ sitePage = page_counter
        /\ Len(served) = page_counter
        /\ fetchedPages = [i \in 1..page_counter |-> i]
        /\ collected_data = Flatten(served)
        /\ StopOutcome(Last(served), MONTHS_PERIOD, now) = "continue"

C17_Witness ==
    /\ lastCall.step = "navigate_to_next_page"
    /\ lastCall.result = "ScrapingError"
    /\ lastCall.attempts = 3
    /\ page_counter = 2
    /\ Len(collected_data) >= 2
    /\ pc = "returned"

\* C18: the accumulated sequence only grows, by one whole batch at a time and
\* only when fetch_results returns; failed attempts contribute nothing, so it
\* is always the concatenation of the batches returned so far.
C18_AccumulatedIsAppendOnly ==
    /\ [](collected_data = Flatten(served))
    /\ [][collected_data' # collected_data =>
            \/ pc' = "launch" /\ collected_data' = <<>>
            \/ /\ pc = "fetch"
               /\ lastCall'.step = "fetch_results" /\ lastCall'.result = "ok"
               /\ Len(served') = Len(served) + 1
               /\ collected_data' = collected_data \o Last(served')]_vars

C18_Witness ==
    /\ lastCall.step = "fetch_results"
    /\ lastCall.result = "ok"
    /\ lastCall.attempts = 3
    /\ Len(served) = 2
    /\ served[1] # <<>>
    /\ Len(collected_data) = Len(served[1]) + Len(served[2])
    /\ Len(served[2]) = 2

Runs == 1..MaxRuns
Running == pc \in {"launch", "search", "filter", "fetch", "navigate"}

\* C19: once the continue flag is false in a run it stays false in that run and
\* no fetch or navigation follows; no call takes more than 3 attempts; and
\* every run that reached the pagination loop eventually returns.
C19_FlagStaysFalseAndRunReturns ==
    /\ [][(~scrape_continues /\ run' = run) => ~scrape_continues']_vars
    /\ [](~scrape_continues => ~InLoop)
    /\ [](attempts < STOP_AFTER_ATTEMPT)
    /\ \A r \in Runs : [](InLoop /\ run = r => <>(pc = "returned" /\ run = r))

\* The part of C19 the code keeps: the flag stays false, nothing is fetched
\* after it, and every started run ends, by returning or by an exception.
C19_EveryRunEnds ==
    /\ [][(~scrape_continues /\ run' = run) => ~scrape_continues']_vars
    /\ [](~scrape_continues => ~InLoop)
    /\ [](attempts < STOP_AFTER_ATTEMPT)
    /\ \A r \in Runs : [](Running /\ run = r => <>(Ended /\ run = r))

\* C20: with months_period < 0 the stop condition says continue for every batch
\* fetched, so a run returns only after a call that failed on all its attempts.
C20_NegativePeriodNeverStops ==
    MONTHS_PERIOD < 0 =>
        /\ \A i \in 1..Len(served) :
               StopOutcome(served[i], MONTHS_PERIOD, now) = "continue"
        /\ pc = "returned" =>
               /\ lastCall.step \in {"fetch_results", "navigate_to_next_page"}
               /\ lastCall.result = "ScrapingError"

\* The part of C20 the code keeps: every batch with at least one article gives
\* continue.
C20_NonEmptyBatchContinues ==
    (Evaluated /\ MONTHS_PERIOD < 0 /\ df # <<>>) => stopResult = "continue"

\* C21: a category checkbox is clicked if and only if its label contains the
\* configured category name as a substring when the letter case of both the
\* label and the name is disregarded.
C21_CategoryMatchIgnoresCase ==
    clicked # "pending" =>
        (clicked = "yes" <=> contains(lower(label), lower(CATEGORY_FILTER)))

\* What the code does guarantee: the case of the label is disregarded, and for
\* a configured name without capital letters the match is the claimed one.
C21_LowerCaseNameMatchIgnoresLabelCase ==
    (clicked # "pending" /\ CATEGORY_FILTER = lower(CATEGORY_FILTER)) =>
        (clicked = "yes" <=> contains(lower(label), lower(CATEGORY_FILTER)))

====
